---- MODULE Spec2Model ----
(***************************************************************************)
(* Model of the UUID codec of src/src/sqlite3-uuid.c: the SQL functions    *)
(* uuid4(), uuid_str(X) and uuid_blob(X), the parser                       *)
(* sqlite3_uuid_str_to_blob, the formatter sqlite3_uuid_blob_to_str and    *)
(* the normalizer sqlite3_uuid_input_to_blob.                              *)
(*                                                                         *)
(* A text is the sequence of its bytes (1..255) without the terminating    *)
(* zero; zStr[k] of the C code is CharAt(z, k, g): the byte at 0-based     *)
(* index k, the terminator at index Len(z), and beyond the terminator the  *)
(* arbitrary byte g that happens to lie there.                             *)
(***************************************************************************)
EXTENDS Integers, Sequences, FiniteSets

VARIABLES
    argv,     \* the arguments of the SQL call: <<>> for uuid4(), <<X>> otherwise
    context,  \* per SQL function, the result left in its sqlite3_context
    rnd,      \* the 16 bytes sqlite3_randomness delivered to uuid4()
    zStr,     \* the 37-byte local buffer the formatter last filled
    scan      \* what the parser last did to its input: reads, cursor, assertion

vars == <<argv, context, rnd, zStr, scan>>

(***************************************************************************)
(* Program constants.                                                      *)
(***************************************************************************)
NBYTES == 16
HYPHEN_MASK == 1360
UUID_STR_LEN == 36
LBRACE == 123
RBRACE == 125
HYPHEN == 45

(***************************************************************************)
(* Bounds of the inputs the model explores.                                *)
(***************************************************************************)
MaxStride == 1
MaxCaseMode == 3
MaxBlobLen == 17
MaxHyphens == 2
MaxRawLen == 3

Max(a, b) == IF a >= b THEN a ELSE b

(***************************************************************************)
(* <ctype.h> isxdigit in the "C" locale.                                   *)
(***************************************************************************)
isxdigit(c) ==
    \/ (c >= 48 /\ c <= 57)
    \/ (c >= 65 /\ c <= 70)
    \/ (c >= 97 /\ c <= 102)

(***************************************************************************)
(* The assertion at the head of sqlite3UuidHexToInt.                       *)
(***************************************************************************)
HexAssert(h) ==
    \/ (h >= 48 /\ h <= 57)
    \/ (h >= 97 /\ h <= 102)
    \/ (h >= 65 /\ h <= 70)

sqlite3UuidHexToInt_NoAdjust(h) ==
    (h + (((h \div 64) % 2))) % 16

(***************************************************************************)
(* h += 9 * (1 & (h >> 6)); return (unsigned char)(h & 0xf);   (ASCII)     *)
(***************************************************************************)
sqlite3UuidHexToInt(h) ==
    (h + 9 * ((h \div 64) % 2)) % 16

(***************************************************************************)
(* zDigits[] = "0123456789abcdef", indexed from 0.                         *)
(***************************************************************************)
zDigits_Upper(n) ==
    <<48, 49, 50, 51, 52, 53, 54, 55, 56, 57, 65, 66, 67, 68, 69, 70>>[n + 1]

zDigits(n) ==
    <<48, 49, 50, 51, 52, 53, 54, 55, 56, 57, 97, 98, 99, 100, 101, 102>>[n + 1]

HyphenBefore_Shifted(k) == (k \div 2) % 2 = 1

(***************************************************************************)
(* if (k & 1): a '-' is written before the byte.                           *)
(***************************************************************************)
HyphenBefore(k) == k % 2 = 1

(***************************************************************************)
(* The loop of sqlite3_uuid_blob_to_str from byte i on, k being the mask   *)
(* already shifted i times and out the characters written so far.          *)
(***************************************************************************)
RECURSIVE FormatLoop(_, _, _, _)
FormatLoop(aBlob, i, k, out) ==
    IF i = NBYTES THEN out
    ELSE LET x == aBlob[i + 1]
             pre == IF HyphenBefore(k) THEN Append(out, HYPHEN) ELSE out
         IN FormatLoop(aBlob, i + 1, k \div 2,
                       pre \o <<zDigits(x \div 16), zDigits(x % 16)>>)

(***************************************************************************)
(* sqlite3_uuid_blob_to_str: the buffer it leaves, terminator included.    *)
(***************************************************************************)
sqlite3_uuid_blob_to_str(aBlob) ==
    Append(FormatLoop(aBlob, 0, HYPHEN_MASK, <<>>), 0)

(***************************************************************************)
(* zStr[k] for a zero-terminated z; g is the byte beyond the terminator.   *)
(***************************************************************************)
CharAt(z, k, g) ==
    IF k < Len(z) THEN z[k + 1] ELSE IF k = Len(z) THEN 0 ELSE g

SkipOpenBrace_While(z, g, pos) ==
    LET RECURSIVE Skip(_)
        Skip(p) == IF CharAt(z, p, g) = LBRACE THEN Skip(p + 1) ELSE p
    IN Skip(pos)

(***************************************************************************)
(* if (zStr[0] == '{') zStr++;                                             *)
(***************************************************************************)
SkipOpenBrace(z, g, pos) ==
    IF CharAt(z, pos, g) = LBRACE THEN pos + 1 ELSE pos

SkipHyphen_While(z, g, pos) ==
    LET RECURSIVE Skip(_)
        Skip(p) == IF CharAt(z, p, g) = HYPHEN THEN Skip(p + 1) ELSE p
    IN Skip(pos)

(***************************************************************************)
(* if (zStr[0] == '-') zStr++;                                             *)
(***************************************************************************)
SkipHyphen(z, g, pos) ==
    IF CharAt(z, pos, g) = HYPHEN THEN pos + 1 ELSE pos

HexPair_Eager(z, g, pos) ==
    [ok |-> isxdigit(CharAt(z, pos, g)) /\ isxdigit(CharAt(z, pos + 1, g)),
     last |-> pos + 1]

(***************************************************************************)
(* isxdigit(zStr[0]) && isxdigit(zStr[1]): zStr[1] is read only when       *)
(* zStr[0] is a hex digit.  last is the highest index read.                *)
(***************************************************************************)
HexPair(z, g, pos) ==
    IF isxdigit(CharAt(z, pos, g))
    THEN [ok |-> isxdigit(CharAt(z, pos + 1, g)), last |-> pos + 1]
    ELSE [ok |-> FALSE, last |-> pos]

ParseTail_NoCheck(z, g, pos) ==
    LET p == IF CharAt(z, pos, g) = RBRACE THEN pos + 1 ELSE pos
    IN [rc |-> 0, pos |-> p, last |-> pos]

(***************************************************************************)
(* if (zStr[0] == '}') zStr++;  return zStr[0] != 0;                       *)
(***************************************************************************)
ParseTail(z, g, pos) ==
    LET p == IF CharAt(z, pos, g) = RBRACE THEN pos + 1 ELSE pos
    IN [rc |-> IF CharAt(z, p, g) # 0 THEN 1 ELSE 0, pos |-> p, last |-> p]

(***************************************************************************)
(* The for loop of sqlite3_uuid_str_to_blob from byte i on.  pos is the    *)
(* cursor, aBlob the bytes written so far, maxRead the highest index read  *)
(* so far and ok whether every call of sqlite3UuidHexToInt passed its      *)
(* assertion.                                                              *)
(***************************************************************************)
RECURSIVE ParseLoop(_, _, _, _, _, _, _)
ParseLoop(z, g, i, pos, aBlob, maxRead, ok) ==
    IF i = NBYTES
    THEN LET t == ParseTail(z, g, pos)
         IN [rc |-> t.rc, aBlob |-> aBlob, pos |-> t.pos,
             maxRead |-> Max(maxRead, t.last), assertOk |-> ok]
    ELSE LET p == SkipHyphen(z, g, pos)
             pair == HexPair(z, g, p)
             c0 == CharAt(z, p, g)
             c1 == CharAt(z, p + 1, g)
         IN IF pair.ok
            THEN ParseLoop(z, g, i + 1, p + 2,
                           Append(aBlob, (sqlite3UuidHexToInt(c0) * 16
                                          + sqlite3UuidHexToInt(c1)) % 256),
                           Max(maxRead, pair.last),
                           ok /\ HexAssert(c0) /\ HexAssert(c1))
            ELSE [rc |-> 1, aBlob |-> aBlob, pos |-> p,
                  maxRead |-> Max(maxRead, pair.last), assertOk |-> ok]

(***************************************************************************)
(* sqlite3_uuid_str_to_blob: rc is its return value, aBlob what it wrote.  *)
(***************************************************************************)
sqlite3_uuid_str_to_blob(z, g) ==
    ParseLoop(z, g, 0, SkipOpenBrace(z, g, 0), <<>>, 0, TRUE)

NoScan == [calls |-> 0, len |-> 0, pos |-> 0, maxRead |-> 0, assertOk |-> TRUE]

ScanOf(z, r) ==
    [calls |-> 1, len |-> Len(z), pos |-> r.pos, maxRead |-> r.maxRead,
     assertOk |-> r.assertOk]

BlobCase_AtLeast(pIn) ==
    IF Len(pIn.val) >= NBYTES
    THEN [ok |-> TRUE, pBlob |-> pIn.val]
    ELSE [ok |-> FALSE, pBlob |-> <<>>]

(***************************************************************************)
(* case SQLITE_BLOB: return n == 16 ? sqlite3_value_blob(pIn) : 0;         *)
(***************************************************************************)
BlobCase(pIn) ==
    IF Len(pIn.val) = NBYTES
    THEN [ok |-> TRUE, pBlob |-> pIn.val]
    ELSE [ok |-> FALSE, pBlob |-> <<>>]

(***************************************************************************)
(* sqlite3_uuid_input_to_blob: ok is FALSE for the null pointer; pBlob is  *)
(* what the returned pointer points at; sc is the parser's trace, or old   *)
(* when the parser did not run.                                            *)
(***************************************************************************)
sqlite3_uuid_input_to_blob(pIn, g, old) ==
    CASE pIn.type = "TEXT" ->
            LET r == sqlite3_uuid_str_to_blob(pIn.val, g)
            IN [ok |-> r.rc = 0,
                pBlob |-> IF r.rc = 0 THEN r.aBlob ELSE <<>>,
                sc |-> ScanOf(pIn.val, r)]
      [] pIn.type = "BLOB" ->
            LET b == BlobCase(pIn)
            IN [ok |-> b.ok, pBlob |-> b.pBlob, sc |-> old]
      [] OTHER -> [ok |-> FALSE, pBlob |-> <<>>, sc |-> old]

StampVariant_WideMask(b) == ((b % 128) + 128) % 256

(***************************************************************************)
(* aBlob[6] = (aBlob[6] & 0x0f) + 0x40;  stored in an unsigned char.       *)
(***************************************************************************)
StampVersion(b) == ((b % 16) + 64) % 256

(***************************************************************************)
(* aBlob[8] = (aBlob[8] & 0x3f) + 0x80;  stored in an unsigned char.       *)
(***************************************************************************)
StampVariant(b) == ((b % 64) + 128) % 256

NullResult == [type |-> "NULL", val |-> <<>>]
Idle == [type |-> "idle", val |-> <<>>]

(***************************************************************************)
(* sqlite3_result_text(context, zStr, 36, SQLITE_TRANSIENT)                *)
(***************************************************************************)
ResultText(buf) == [type |-> "TEXT", val |-> SubSeq(buf, 1, UUID_STR_LEN)]

(***************************************************************************)
(* sqlite3_result_blob(context, pBlob, 16, SQLITE_TRANSIENT)               *)
(***************************************************************************)
ResultBlob(pBlob) == [type |-> "BLOB", val |-> SubSeq(pBlob, 1, NBYTES)]

(***************************************************************************)
(* sqlite3_uuid on the random bytes r: the buffer and the result.          *)
(***************************************************************************)
sqlite3_uuid(r) ==
    LET aBlob == [r EXCEPT ![7] = StampVersion(r[7]), ![9] = StampVariant(r[9])]
        buf == sqlite3_uuid_blob_to_str(aBlob)
    IN [zStr |-> buf, result |-> ResultText(buf)]

sqlite3_uuid_str_LocalBuf(pIn, g, oldZ, oldScan) ==
    LET in == sqlite3_uuid_input_to_blob(pIn, g, oldScan)
        aBlob == IF pIn.type = "TEXT" THEN in.pBlob ELSE [i \in 1..NBYTES |-> g]
        buf == sqlite3_uuid_blob_to_str(aBlob)
    IN IF ~in.ok
       THEN [zStr |-> oldZ, result |-> NullResult, sc |-> in.sc]
       ELSE [zStr |-> buf, result |-> ResultText(buf), sc |-> in.sc]

(***************************************************************************)
(* sqlite3_uuid_str on argv[0]: no result is set when the normalizer       *)
(* returns the null pointer, and the function's result is then SQL NULL.   *)
(***************************************************************************)
sqlite3_uuid_str(pIn, g, oldZ, oldScan) ==
    LET in == sqlite3_uuid_input_to_blob(pIn, g, oldScan)
        buf == sqlite3_uuid_blob_to_str(in.pBlob)
    IN IF ~in.ok
       THEN [zStr |-> oldZ, result |-> NullResult, sc |-> in.sc]
       ELSE [zStr |-> buf, result |-> ResultText(buf), sc |-> in.sc]

(***************************************************************************)
(* sqlite3_uuid_blob on argv[0].                                           *)
(***************************************************************************)
sqlite3_uuid_blob(pIn, g, oldScan) ==
    LET in == sqlite3_uuid_input_to_blob(pIn, g, oldScan)
    IN IF ~in.ok
       THEN [result |-> NullResult, sc |-> in.sc]
       ELSE [result |-> ResultBlob(in.pBlob), sc |-> in.sc]

(***************************************************************************)
(* The values the host passes in.  A blob or a random fill is the byte     *)
(* sequence seed, seed + 17*stride, seed + 2*17*stride, ... (mod 256), so  *)
(* every byte value occurs at every position and both nibbles vary.        *)
(***************************************************************************)
Bytes(seed, stride, n) == [i \in 1..n |-> (seed + (i - 1) * stride * 17) % 256]

\* a0eebc99-9c0b-4ef8-bb6d-6bb9bd380a11, the UUID of the header comment
ExampleBlob ==
    <<160, 238, 188, 153, 156, 11, 78, 248, 187, 109, 107, 185, 189, 56, 10, 17>>

\* whether the k-th hex digit is written in upper case under case mode m
UpperAt(m, k) == IF m = 0 THEN FALSE ELSE (k % m) = 0

HexChar(n, upper) == IF n < 10 THEN 48 + n ELSE IF upper THEN 55 + n ELSE 87 + n

RECURSIVE LooseBody(_, _, _, _)
LooseBody(b, hy, m, i) ==
    IF i = Len(b) THEN <<>>
    ELSE (IF i \in hy THEN <<HYPHEN>> ELSE <<>>)
         \o <<HexChar(b[i + 1] \div 16, UpperAt(m, 3 * i)),
              HexChar(b[i + 1] % 16, UpperAt(m, 3 * i + 1))>>
         \o LooseBody(b, hy, m, i + 1)

(***************************************************************************)
(* A text of the accepted input format: the hex digits of b in case mode   *)
(* m, a '-' before each byte whose index is in hy, a '{' in front when lb  *)
(* and a '}' behind when rb.                                               *)
(***************************************************************************)
Loose(b, hy, m, lb, rb) ==
    (IF lb THEN <<LBRACE>> ELSE <<>>) \o LooseBody(b, hy, m, 0)
    \o (IF rb THEN <<RBRACE>> ELSE <<>>)

CanonHyphens == {4, 6, 8, 10}
DocHyphens == {CanonHyphens, {2, 4, 6, 8, 10, 12, 14}, {4, 8, 12}}
ByteIdx == 0..(NBYTES - 1)

\* the sets of at most MaxHyphens byte indices, their complements, and the
\* placements of the header comment
FewHyphens ==
    UNION {{{f[k] : k \in 1..n} : f \in [1..n -> ByteIdx]} : n \in 0..MaxHyphens}

HyphenSets ==
    FewHyphens \cup {ByteIdx \ S : S \in FewHyphens} \cup DocHyphens

Insert(z, p, c) == SubSeq(z, 1, p - 1) \o <<c>> \o SubSeq(z, p, Len(z))
Replace(z, p, c) == [z EXCEPT ![p] = c]
Delete(z, p) == SubSeq(z, 1, p - 1) \o SubSeq(z, p + 1, Len(z))

\* - { } 0 f A G g space :
EditChars == {45, 123, 125, 48, 102, 65, 71, 103, 32, 58}
\* { - a } 0
RawChars == {123, 45, 97, 125, 48}

Text(z) == <<[type |-> "TEXT", val |-> z]>>
Blob(b) == <<[type |-> "BLOB", val |-> b]>>

OtherInputs ==
    {<<>>} \cup {<<[type |-> t, val |-> <<>>]>> : t \in {"NULL", "INTEGER", "FLOAT"}}

BlobInputs ==
    {Blob(Bytes(seed, stride, n)) :
        seed \in 0..255, stride \in 0..MaxStride, n \in {NBYTES}}
    \cup {Blob(Bytes(seed, stride, n)) :
        seed \in {0, 64, 128, 255}, stride \in 0..MaxStride, n \in 0..MaxBlobLen}

CaseInputs ==
    {Text(Loose(Bytes(seed, stride, NBYTES), CanonHyphens, m, FALSE, FALSE)) :
        seed \in 0..255, stride \in 0..MaxStride, m \in 0..MaxCaseMode}

LooseInputs ==
    {Text(Loose(ExampleBlob, hy, m[1], m[2], m[3])) :
        hy \in DocHyphens \cup {{}, ByteIdx},
        m \in (0..MaxCaseMode) \X BOOLEAN \X BOOLEAN}

HyphenInputs ==
    {Text(Loose(ExampleBlob, hy, 2, FALSE, FALSE)) : hy \in HyphenSets}

EditBases ==
    {Loose(ExampleBlob, hy, 2, lr[1], lr[2]) :
        hy \in {{}, CanonHyphens}, lr \in BOOLEAN \X BOOLEAN}

EditInputs ==
    UNION {
        {Text(Insert(z, p, c)) : p \in 1..(Len(z) + 1), c \in EditChars}
        \cup {Text(Replace(z, p, c)) : p \in 1..Len(z), c \in EditChars}
        \cup {Text(Delete(z, p)) : p \in 1..Len(z)}
        \cup {Text(SubSeq(z, 1, n)) : n \in 0..Len(z)}
        : z \in EditBases}

RawInputs ==
    UNION {{Text(z) : z \in [1..n -> RawChars]} : n \in 0..MaxRawLen}

Inputs ==
    OtherInputs \cup BlobInputs \cup CaseInputs \cup LooseInputs
    \cup HyphenInputs \cup EditInputs \cup RawInputs

\* the bytes that may lie beyond a text's terminator
Beyond == {0, 97}

InitWith(in) ==
    /\ argv \in in
    /\ context = [uuid4 |-> Idle, uuid_str |-> Idle, uuid_blob |-> Idle]
    /\ rnd = <<>>
    /\ zStr = <<>>
    /\ scan = NoScan

Init == InitWith(Inputs)

(***************************************************************************)
(* uuid4(): registered with no argument.                                   *)
(***************************************************************************)
Uuid4 ==
    /\ Len(argv) = 0
    /\ context.uuid4.type = "idle"
    /\ \E seed \in 0..255, stride \in 0..MaxStride :
          \E r \in {Bytes(seed, stride, NBYTES)} : \E f \in {sqlite3_uuid(r)} :
             /\ rnd' = r
             /\ zStr' = f.zStr
             /\ context' = [context EXCEPT !.uuid4 = f.result]
    /\ UNCHANGED <<argv, scan>>

(***************************************************************************)
(* What a call can do to the text or blob pIn.  The byte beyond a text's   *)
(* terminator is whatever lies there: it matters only to a run that reads  *)
(* it, so it is chosen only then.                                          *)
(***************************************************************************)
StrOutcomes(pIn, oldZ, oldScan) ==
    UNION {IF f.sc.maxRead <= f.sc.len
           THEN {f}
           ELSE {sqlite3_uuid_str(pIn, g, oldZ, oldScan) : g \in Beyond}
           : f \in {sqlite3_uuid_str(pIn, 0, oldZ, oldScan)}}

BlobOutcomes(pIn, oldScan) ==
    UNION {IF f.sc.maxRead <= f.sc.len
           THEN {f}
           ELSE {sqlite3_uuid_blob(pIn, g, oldScan) : g \in Beyond}
           : f \in {sqlite3_uuid_blob(pIn, 0, oldScan)}}

(***************************************************************************)
(* uuid_str(X): registered with one argument.                              *)
(***************************************************************************)
UuidStr ==
    /\ Len(argv) = 1
    /\ context.uuid_str.type = "idle"
    /\ \E f \in StrOutcomes(argv[1], zStr, scan) :
          /\ zStr' = f.zStr
          /\ scan' = f.sc
          /\ context' = [context EXCEPT !.uuid_str = f.result]
    /\ UNCHANGED <<argv, rnd>>

(***************************************************************************)
(* uuid_blob(X): registered with one argument.                             *)
(***************************************************************************)
UuidBlob ==
    /\ Len(argv) = 1
    /\ context.uuid_blob.type = "idle"
    /\ \E f \in BlobOutcomes(argv[1], scan) :
          /\ scan' = f.sc
          /\ context' = [context EXCEPT !.uuid_blob = f.result]
    /\ UNCHANGED <<argv, rnd, zStr>>

Next == Uuid4 \/ UuidStr \/ UuidBlob

Spec == Init /\ [][Next]_vars

(***************************************************************************)
(* uuid_blob on every placement of single hyphens: the example UUID with a *)
(* '-' in front of each byte of every subset of the 16 bytes, and each of  *)
(* the documented forms with one more '-' inserted at every position.      *)
(***************************************************************************)
HyphenPlacements(pow) ==
    {Text(Loose(ExampleBlob, hy, 2, FALSE, FALSE)) : hy \in pow}
    \cup UNION {{Text(Insert(z, p, HYPHEN)) : p \in 1..(Len(z) + 1)} :
                 z \in {Loose(ExampleBlob, hy, 2, lr[1], lr[2]) :
                           hy \in DocHyphens \cup {{}, ByteIdx},
                           lr \in BOOLEAN \X BOOLEAN}}

InitHyphen == InitWith(HyphenPlacements(SUBSET ByteIdx))

SpecHyphen == InitHyphen /\ [][UuidBlob]_vars

(***************************************************************************)
(* Reference notions the properties are stated with.  They are written     *)
(* from the input format and the output format of the header comment, not  *)
(* from the code's loops.                                                  *)
(***************************************************************************)
HexDigits == (48..57) \cup (65..70) \cup (97..102)
LowerHexDigits == (48..57) \cup (97..102)

DigitValue(c) == IF c <= 57 THEN c - 48 ELSE IF c <= 70 THEN c - 55 ELSE c - 87

IsHexDigit(c) == c \in HexDigits

\* the hex digits of z, in order
HexOnly(z) == SelectSeq(z, IsHexDigit)

\* the bytes the hex digits of z spell, two digits a byte, high nibble first
RefBytes(z) ==
    LET d == HexOnly(z)
    IN [i \in 1..(Len(d) \div 2) |-> 16 * DigitValue(d[2 * i - 1]) + DigitValue(d[2 * i])]

\* cnt[p] is the number of hex digits of z before position p (1..Len(z)+1)
RECURSIVE DigitCounts(_, _, _)
DigitCounts(z, p, acc) ==
    IF p > Len(z) THEN acc
    ELSE DigitCounts(z, p + 1,
                     Append(acc, acc[p] + (IF z[p] \in HexDigits THEN 1 ELSE 0)))

DigitsBefore(z) == DigitCounts(z, 1, <<0>>)

\* the 36 characters xxxxxxxx-xxxx-xxxx-xxxx-xxxxxxxxxxxx, x a lower-case digit
IsCanonicalText(t) ==
    /\ Len(t) = 36
    /\ \A p \in 1..36 :
          IF p \in {9, 14, 19, 24} THEN t[p] = 45 ELSE t[p] \in LowerHexDigits

\* the 1-based position of the first digit of byte i (0-based) in canonical text
DigitPos(i) == 2 * i + 1 + Cardinality({h \in CanonHyphens : h <= i})

\* z without one leading '{' and without one trailing '}'
Body(z) ==
    LET a == IF Len(z) > 0 /\ z[1] = 123 THEN SubSeq(z, 2, Len(z)) ELSE z
    IN IF Len(a) > 0 /\ a[Len(a)] = 125 THEN SubSeq(a, 1, Len(a) - 1) ELSE a

HasBrace(z) == \E p \in 1..Len(z) : z[p] \in {123, 125}

IsTextArg == Len(argv) = 1 /\ argv[1].type = "TEXT"
IsBlobArg == Len(argv) = 1 /\ argv[1].type = "BLOB"
StrDone == context.uuid_str.type # "idle"
BlobDone == context.uuid_blob.type # "idle"

(***************************************************************************)
(* C1. Round trip: the text uuid_str produces for a 16-byte blob b is      *)
(* parsed by sqlite3_uuid_str_to_blob with return value 0 into exactly b.  *)
(***************************************************************************)
C1_RoundTrip ==
    (IsBlobArg /\ Len(argv[1].val) = NBYTES /\ StrDone) =>
        /\ context.uuid_str.type = "TEXT"
        /\ \A g \in Beyond :
              LET r == sqlite3_uuid_str_to_blob(context.uuid_str.val, g)
              IN r.rc = 0 /\ r.aBlob = argv[1].val

C1_Witness ==
    /\ IsBlobArg /\ Len(argv[1].val) = NBYTES /\ StrDone
    /\ argv[1].val[1] = 171 /\ argv[1].val[2] = 188
    /\ context.uuid_str.type = "TEXT"

(***************************************************************************)
(* C2. Generate validity: whatever 16 bytes the random source delivers,    *)
(* uuid4() returns a 36-character canonical lower-case UUID whose 13th hex *)
(* digit is '4' and whose 17th hex digit is one of 8, 9, a, b.             *)
(***************************************************************************)
C2_GenerateValid ==
    context.uuid4.type # "idle" =>
        /\ context.uuid4.type = "TEXT"
        /\ IsCanonicalText(context.uuid4.val)
        /\ context.uuid4.val[15] = 52
        /\ context.uuid4.val[20] \in {56, 57, 97, 98}

C2_Witness ==
    /\ context.uuid4.type = "TEXT"
    /\ rnd[7] \div 16 = 15
    /\ rnd[9] \div 64 = 3

(***************************************************************************)
(* C3. Canonicalization: when uuid_str accepts a text, its result is the   *)
(* canonical lower-case 8-4-4-4-12 string of the 16 bytes the text's hex   *)
(* digits spell, equal to the formatter's output for those bytes, whatever *)
(* the text's casing, braces and hyphen placement.                         *)
(***************************************************************************)
C3_Canonicalization ==
    (IsTextArg /\ context.uuid_str.type = "TEXT") =>
        /\ Len(HexOnly(argv[1].val)) = 2 * NBYTES
        /\ IsCanonicalText(context.uuid_str.val)
        /\ context.uuid_str.val
             = SubSeq(sqlite3_uuid_blob_to_str(RefBytes(argv[1].val)), 1, 36)
        /\ \A i \in ByteIdx :
              LET b == RefBytes(argv[1].val)[i + 1]
                  t == context.uuid_str.val
              IN /\ t[DigitPos(i)] = HexChar(b \div 16, FALSE)
                 /\ t[DigitPos(i) + 1] = HexChar(b % 16, FALSE)

C3_Witness ==
    /\ IsTextArg /\ context.uuid_str.type = "TEXT"
    /\ argv[1].val[1] = 123
    /\ argv[1].val[Len(argv[1].val)] = 125
    /\ \E p \in 1..Len(argv[1].val) : argv[1].val[p] \in 65..70
    /\ Cardinality({p \in 1..Len(argv[1].val) : argv[1].val[p] = 45}) = 3

(***************************************************************************)
(* C4. Rejection: a text with fewer than 32 hex digits, with more than 32, *)
(* with a character that is no hex digit where a hex digit is required, or *)
(* with any character left over after the 16th byte and its optional       *)
(* closing brace makes uuid_str and uuid_blob produce no result.           *)
(***************************************************************************)
TooFewDigits(z) == Len(HexOnly(z)) < 2 * NBYTES
TooManyDigits(z) == Len(HexOnly(z)) > 2 * NBYTES

\* a '{' that opens the text, or a single '-' in front of a byte
Skippable(z, cnt, p) ==
    \/ z[p] = 123 /\ p = 1
    \/ z[p] = 45 /\ cnt[p] % 2 = 0 /\ (p > 1 => z[p - 1] # 45)

NonHexWhereDigitRequired(z) ==
    LET cnt == DigitsBefore(z)
    IN \E p \in 1..Len(z) :
          /\ z[p] \notin HexDigits
          /\ cnt[p] < 2 * NBYTES
          /\ ~Skippable(z, cnt, p)

LeftOver(z) ==
    LET cnt == DigitsBefore(z)
    IN \E p \in 1..Len(z) :
          /\ cnt[p] >= 2 * NBYTES
          /\ ~(z[p] = 125 /\ cnt[p] = 2 * NBYTES /\ p > 1 /\ z[p - 1] \in HexDigits)

Malformed(z) ==
    TooFewDigits(z) \/ TooManyDigits(z) \/ NonHexWhereDigitRequired(z) \/ LeftOver(z)

C4_Rejection ==
    (IsTextArg /\ Malformed(argv[1].val)) =>
        /\ StrDone => context.uuid_str = NullResult
        /\ BlobDone => context.uuid_blob = NullResult

C4_Witness ==
    /\ IsTextArg /\ StrDone /\ BlobDone
    /\ Len(HexOnly(argv[1].val)) = 2 * NBYTES
    /\ ~NonHexWhereDigitRequired(argv[1].val)
    /\ LeftOver(argv[1].val)
    /\ context.uuid_str = NullResult /\ context.uuid_blob = NullResult

(***************************************************************************)
(* C5. Blob input: a blob yields a result if and only if it is exactly 16  *)
(* bytes long, and uuid_blob then returns those bytes unchanged; a blob of *)
(* any other length and a value that is neither text nor blob yield no     *)
(* result.                                                                 *)
(***************************************************************************)
C5_BlobInput ==
    /\ IsBlobArg =>
          /\ BlobDone => context.uuid_blob =
                IF Len(argv[1].val) = 16
                THEN [type |-> "BLOB", val |-> argv[1].val] ELSE NullResult
          /\ StrDone => (context.uuid_str.type = "TEXT" <=> Len(argv[1].val) = 16)
          /\ StrDone => context.uuid_str.type \in {"TEXT", "NULL"}
    /\ (Len(argv) = 1 /\ argv[1].type \notin {"TEXT", "BLOB"}) =>
          /\ BlobDone => context.uuid_blob = NullResult
          /\ StrDone => context.uuid_str = NullResult

C5_Witness ==
    /\ IsBlobArg /\ Len(argv[1].val) = 17 /\ argv[1].val[17] # 0
    /\ BlobDone /\ StrDone
    /\ context.uuid_blob = NullResult /\ context.uuid_str = NullResult

(***************************************************************************)
(* C6. uuid_str and uuid_blob accept the same inputs: on the same value,   *)
(* uuid_str produces a text if and only if uuid_blob produces a blob, and  *)
(* the text is then the formatter's output for that blob.                  *)
(***************************************************************************)
C6_SameInputs ==
    (StrDone /\ BlobDone) =>
        /\ context.uuid_str.type \in {"TEXT", "NULL"}
        /\ context.uuid_blob.type \in {"BLOB", "NULL"}
        /\ context.uuid_str.type = "TEXT" <=> context.uuid_blob.type = "BLOB"
        /\ context.uuid_str.type = "TEXT" =>
              /\ Len(context.uuid_blob.val) = NBYTES
              /\ context.uuid_str.val
                   = SubSeq(sqlite3_uuid_blob_to_str(context.uuid_blob.val), 1, 36)

C6_Witness ==
    /\ IsBlobArg /\ StrDone /\ BlobDone
    /\ context.uuid_str.type = "TEXT" /\ context.uuid_blob.type = "BLOB"
    /\ argv[1].val[1] = 171

(***************************************************************************)
(* C7. Formatter shape: the formatter fills 36 characters and then one     *)
(* terminator; the characters at 0-based positions 8, 13, 18 and 23 are    *)
(* '-', every other one is a lower-case hex digit, and byte i of the       *)
(* formatted bytes is rendered high nibble first, in input order.          *)
(***************************************************************************)
\* the bytes the formatter was last given
FormattedBytes ==
    IF Len(argv) = 0
    THEN [rnd EXCEPT ![7] = 64 + (rnd[7] % 16), ![9] = 128 + (rnd[9] % 64)]
    ELSE IF argv[1].type = "BLOB" THEN argv[1].val ELSE RefBytes(argv[1].val)

C7_FormatterShape ==
    zStr # <<>> =>
        /\ Len(zStr) = 37
        /\ zStr[37] = 0
        /\ \A p \in 1..36 :
              IF p - 1 \in {8, 13, 18, 23}
              THEN zStr[p] = 45 ELSE zStr[p] \in LowerHexDigits
        /\ Len(FormattedBytes) = NBYTES
        /\ \A i \in ByteIdx :
              /\ DigitValue(zStr[DigitPos(i)]) = FormattedBytes[i + 1] \div 16
              /\ DigitValue(zStr[DigitPos(i) + 1]) = FormattedBytes[i + 1] % 16

C7_Witness ==
    /\ IsBlobArg /\ StrDone /\ Len(zStr) = 37
    /\ argv[1].val[1] = 222 /\ argv[1].val[16] = 221

(***************************************************************************)
(* C8. Brace leniency: a leading '{' and a trailing '}' are optional       *)
(* independently of each other.  With s the text without one leading '{'   *)
(* and without one trailing '}': if s still holds a brace the text is      *)
(* rejected, and otherwise the text is accepted exactly when the parser    *)
(* accepts s, with the same 16 bytes and the cursor on the terminator.     *)
(***************************************************************************)
C8_BraceLeniency ==
    (IsTextArg /\ BlobDone) =>
        LET s == Body(argv[1].val)
            acc == context.uuid_blob.type = "BLOB"
        IN IF HasBrace(s)
           THEN ~acc
           ELSE \A g \in Beyond :
                   LET r == sqlite3_uuid_str_to_blob(s, g)
                   IN /\ acc <=> r.rc = 0
                      /\ acc => /\ context.uuid_blob.val = r.aBlob
                                /\ scan.pos = Len(argv[1].val)

C8_Witness ==
    /\ IsTextArg /\ BlobDone
    /\ context.uuid_blob.type = "BLOB"
    /\ argv[1].val[1] = 123
    /\ argv[1].val[Len(argv[1].val)] # 125

(***************************************************************************)
(* C9. Hyphen rule: a text of 32 hex digits and '-' characters (inside its *)
(* optional braces) is accepted exactly when every '-' stands in front of  *)
(* one of the 16 bytes and no '-' follows another: after an even number,   *)
(* less than 32, of hex digits.  It then decodes to the bytes its digits   *)
(* spell, wherever the hyphens are.                                        *)
(***************************************************************************)
HyphensOnly(z) ==
    /\ Len(HexOnly(z)) = 2 * NBYTES
    /\ \A p \in 1..Len(z) : z[p] \in HexDigits \cup {45}

HyphensWellPlaced(z) ==
    LET cnt == DigitsBefore(z)
    IN \A p \in 1..Len(z) :
          z[p] = 45 =>
              /\ cnt[p] % 2 = 0
              /\ cnt[p] < 2 * NBYTES
              /\ (p > 1 => z[p - 1] # 45)

C9_HyphenRule ==
    (IsTextArg /\ BlobDone /\ HyphensOnly(Body(argv[1].val))) =>
        /\ context.uuid_blob.type = "BLOB" <=> HyphensWellPlaced(Body(argv[1].val))
        /\ context.uuid_blob.type = "BLOB" =>
              context.uuid_blob.val = RefBytes(argv[1].val)
        /\ context.uuid_blob.type \in {"BLOB", "NULL"}

C9_Witness ==
    /\ IsTextArg /\ BlobDone
    /\ context.uuid_blob.type = "BLOB"
    /\ argv[1].val[1] = 45
    /\ argv[1].val[4] = 45
    /\ argv[1].val[Len(argv[1].val) - 2] = 45
    /\ argv[1].val[10] # 45

(***************************************************************************)
(* C10. Memory safety of the parser: on every zero-terminated text it      *)
(* reads no character beyond the terminator, its cursor never passes the   *)
(* terminator, and sqlite3UuidHexToInt is only called on hex digits.       *)
(***************************************************************************)
C10_MemorySafety ==
    scan.calls > 0 =>
        /\ scan.len = Len(argv[1].val)
        /\ scan.maxRead <= scan.len
        /\ scan.pos <= scan.len
        /\ scan.assertOk

C10_Witness ==
    /\ IsTextArg /\ scan.calls > 0
    /\ argv[1].val = <<123, 45, 97>>
    /\ scan.maxRead = 3

====
